---------------------------- MODULE Spec2Model ----------------------------
(***************************************************************************)
(* A model of nihvm (src/main.rs): the instruction table, the two-pass     *)
(* assembler `assemble` and the dispatch loop `Vm::execute`.               *)
(*                                                                         *)
(* Representation notes.                                                   *)
(*  - Bytes are naturals 0..255; a program is a sequence of bytes.  Code   *)
(*    offsets are 0-based as in the source: Get/Set translate to the       *)
(*    1-based sequences of TLA+.                                           *)
(*  - i32 values are integers in I32Min..I32Max.  The model checker's      *)
(*    integers are themselves 32 bits wide, so every operation that can    *)
(*    leave that range is computed on the little-endian bytes.             *)
(*  - The cursor position (a u64 in the source) is held as the signed      *)
(*    reading of its 64 bits: a value p >= 0 is the position p, a value    *)
(*    p < 0 is the position 2^64 + p.  Every position the model reaches is *)
(*    within 2^31 of 0 or of 2^64, so the reading is exact.                *)
(*  - Overflow of +, -, * on i32 and of - on usize panics in a build with  *)
(*    overflow checks and wraps in a build without: both outcomes are      *)
(*    successors.                                                          *)
(***************************************************************************)
EXTENDS Integers, Sequences, FiniteSets, TLC

VARIABLES
    source,             \* the text handed to assemble ("" for raw bytecode)
    program,            \* the byte buffer handed to Vm::execute
    position,           \* opcodes.position(), the cursor of execute
    stack,              \* Vm.stack
    stack_idx,          \* Vm.stack_idx
    control_stack,      \* Vm.control_stack
    control_stack_idx,  \* Vm.control_stack_idx
    output,             \* the values println! has printed, in order
    result,             \* where the call stands: see Results
    last,               \* the state in which the latest loop iteration began
    steps               \* loop iterations executed so far

vars == <<source, program, position, stack, stack_idx, control_stack,
          control_stack_idx, output, result, last, steps>>

-----------------------------------------------------------------------------
(* Bounds of the model. *)

StackCap == 3
ControlStackCap == 2
MaxStmts == 2
MaxSteps == 8

\* The runs of the program of main: the largest argument of its factorial, the
\* capacities of the two stacks and the loop iterations explored.
MaxFactorialArg == 12

FactStackCap == 4

FactControlStackCap == 2

MaxFactSteps == 130

-----------------------------------------------------------------------------
(* The source text of main, with n where main has 10. *)

FactorialSource(n) ==
    "\n        push " \o ToString(n) \o "\n        call @fact\n        print\n        halt\n"
    \o "\nfact:   push 1\n        swap\nloop:   dup; jz @done\n        dup; cpush\n"
    \o "        mul\n        cpop; push 1; sub\n        jump @loop\ndone:   pop\n"
    \o "        ret\n    "

FactorialSources == { FactorialSource(n) : n \in 0..MaxFactorialArg }

\* The loop iterations a run may take.
StepLimit(src) == IF src \in FactorialSources THEN MaxFactSteps ELSE MaxSteps

-----------------------------------------------------------------------------
(* The instruction table: define_instructions! *)

InstTable ==
    << [variant |-> "Nop",   value |-> 0,  name |-> "nop",   operands |-> 0, stack_args |-> 0, stack_effect |-> 0],
       [variant |-> "Print", value |-> 1,  name |-> "print", operands |-> 0, stack_args |-> 1, stack_effect |-> -1],
       [variant |-> "Halt",  value |-> 2,  name |-> "halt",  operands |-> 0, stack_args |-> 0, stack_effect |-> 0],
       [variant |-> "Push",  value |-> 3,  name |-> "push",  operands |-> 1, stack_args |-> 0, stack_effect |-> 1],
       [variant |-> "Dup",   value |-> 4,  name |-> "dup",   operands |-> 0, stack_args |-> 1, stack_effect |-> 1],
       [variant |-> "Pop",   value |-> 5,  name |-> "pop",   operands |-> 0, stack_args |-> 1, stack_effect |-> -1],
       [variant |-> "Swap",  value |-> 6,  name |-> "swap",  operands |-> 0, stack_args |-> 2, stack_effect |-> 0],
       [variant |-> "Add",   value |-> 7,  name |-> "add",   operands |-> 0, stack_args |-> 2, stack_effect |-> -1],
       [variant |-> "Sub",   value |-> 8,  name |-> "sub",   operands |-> 0, stack_args |-> 2, stack_effect |-> -1],
       [variant |-> "Mul",   value |-> 9,  name |-> "mul",   operands |-> 0, stack_args |-> 2, stack_effect |-> -1],
       [variant |-> "Div",   value |-> 10, name |-> "div",   operands |-> 0, stack_args |-> 2, stack_effect |-> -1],
       [variant |-> "Mod",   value |-> 11, name |-> "mod",   operands |-> 0, stack_args |-> 2, stack_effect |-> -1],
       [variant |-> "Eq",    value |-> 12, name |-> "eq",    operands |-> 0, stack_args |-> 2, stack_effect |-> -1],
       [variant |-> "Lt",    value |-> 13, name |-> "lt",    operands |-> 0, stack_args |-> 2, stack_effect |-> -1],
       [variant |-> "Lte",   value |-> 14, name |-> "lte",   operands |-> 0, stack_args |-> 2, stack_effect |-> -1],
       [variant |-> "Gt",    value |-> 15, name |-> "gt",    operands |-> 0, stack_args |-> 2, stack_effect |-> -1],
       [variant |-> "Gte",   value |-> 16, name |-> "gte",   operands |-> 0, stack_args |-> 2, stack_effect |-> -1],
       [variant |-> "Jz",    value |-> 17, name |-> "jz",    operands |-> 1, stack_args |-> 1, stack_effect |-> -1],
       [variant |-> "Jnz",   value |-> 18, name |-> "jnz",   operands |-> 1, stack_args |-> 1, stack_effect |-> -1],
       [variant |-> "Jump",  value |-> 19, name |-> "jump",  operands |-> 1, stack_args |-> 0, stack_effect |-> 0],
       [variant |-> "Call",  value |-> 20, name |-> "call",  operands |-> 1, stack_args |-> 0, stack_effect |-> 0],
       [variant |-> "Ret",   value |-> 21, name |-> "ret",   operands |-> 0, stack_args |-> 0, stack_effect |-> 0],
       [variant |-> "CPush", value |-> 22, name |-> "cpush", operands |-> 0, stack_args |-> 1, stack_effect |-> -1],
       [variant |-> "CPop",  value |-> 23, name |-> "cpop",  operands |-> 0, stack_args |-> 0, stack_effect |-> 1],
       [variant |-> "CDup",  value |-> 24, name |-> "cdup",  operands |-> 0, stack_args |-> 0, stack_effect |-> 1] >>

Insts == { InstTable[i].variant : i \in 1..Len(InstTable) }

\* The table row of a variant.
Row(inst) == CHOOSE r \in { InstTable[i] : i \in 1..Len(InstTable) } : r.variant = inst

\* Mutant of from_u8: the range check lets the first value after the table in.
from_u8_RangeOffByOne(byte) ==
    IF byte <= Len(InstTable)
    THEN InstTable[(byte % Len(InstTable)) + 1].variant
    ELSE "None"

\* Inst::from_u8: Some(variant) for a value of the table, None otherwise.
from_u8(byte) ==
    IF \E i \in 1..Len(InstTable) : InstTable[i].value = byte
    THEN (CHOOSE r \in { InstTable[i] : i \in 1..Len(InstTable) } : r.value = byte).variant
    ELSE "None"

\* Inst::from_str: Some(variant) for a mnemonic of the table, None otherwise.
from_str(name) ==
    IF \E i \in 1..Len(InstTable) : InstTable[i].name = name
    THEN (CHOOSE r \in { InstTable[i] : i \in 1..Len(InstTable) } : r.name = name).variant
    ELSE "None"

\* `inst as u8`
as_u8(inst) == Row(inst).value

num_operands(inst) == Row(inst).operands

num_stack_args(inst) == Row(inst).stack_args

stack_effect(inst) == Row(inst).stack_effect

-----------------------------------------------------------------------------
(* i32 and its little-endian encoding. *)

I32Max == 2147483647

I32Min == -I32Max - 1

OperandSize == 4

Bytes == 0..255

\* Mutant of WriteI32LE: the most significant byte comes first.
WriteI32LE_BigEndian(v) ==
    << (v \div 16777216) % 256, (v \div 65536) % 256, (v \div 256) % 256, v % 256 >>

\* write_i32::<LittleEndian>: the four bytes of the two's-complement encoding.
WriteI32LE(v) ==
    << v % 256, (v \div 256) % 256, (v \div 65536) % 256, (v \div 16777216) % 256 >>

\* read_i32::<LittleEndian> on four bytes.
ReadI32LE(b) ==
    b[1] + b[2] * 256 + b[3] * 65536
         + (IF b[4] >= 128 THEN b[4] - 256 ELSE b[4]) * 16777216


\* An arithmetic result that fits i32 is itself; the checks below decide that
\* without leaving the range.
AddOverflows(a, b) == (b > 0 /\ a > I32Max - b) \/ (b < 0 /\ a < I32Min - b)

SubOverflows(a, b) == (b < 0 /\ a > I32Max + b) \/ (b > 0 /\ a < I32Min + b)

\* i32::wrapping_add
WrappingAdd(a, b) ==
    IF ~AddOverflows(a, b) THEN a + b
    ELSE IF a > 0 THEN (a + I32Min) + (b + I32Min)
    ELSE (a - I32Min) + (b - I32Min)

\* i32::wrapping_sub
WrappingSub(a, b) ==
    IF ~SubOverflows(a, b) THEN a - b
    ELSE IF a >= 0 THEN (a + I32Min) - (b - I32Min)
    ELSE (a - I32Min) - (b + I32Min)

\* i32::wrapping_mul: the low four bytes of the product, by long multiplication.
WrappingMul(a, b) ==
    LET x  == WriteI32LE(a)
        y  == WriteI32LE(b)
        c1 == x[1] * y[1]
        c2 == x[1] * y[2] + x[2] * y[1] + (c1 \div 256)
        c3 == x[1] * y[3] + x[2] * y[2] + x[3] * y[1] + (c2 \div 256)
        c4 == x[1] * y[4] + x[2] * y[3] + x[3] * y[2] + x[4] * y[1] + (c3 \div 256)
    IN  ReadI32LE(<< c1 % 256, c2 % 256, c3 % 256, c4 % 256 >>)

MulOverflows(a, b) ==
    /\ a # 0
    /\ b # 0
    /\ IF a = -1 THEN b = I32Min
       ELSE IF b = -1 THEN a = I32Min
       ELSE WrappingMul(a, b) \div a # b

\* Mutant of TruncDiv: the quotient is rounded down.
TruncDiv_Floor(a, b) == a \div b

\* The quotient of i32 `/`, which truncates toward zero.  The caller has excluded
\* b = 0 and I32Min / -1.
TruncDiv(a, b) ==
    IF b > 0 THEN (IF a < 0 /\ a % b # 0 THEN (a \div b) + 1 ELSE a \div b)
    ELSE IF b = I32Min THEN (IF a = I32Min THEN 1 ELSE 0)
    ELSE LET nb == -b
             q  == IF a < 0 /\ a % nb # 0 THEN (a \div nb) + 1 ELSE a \div nb
         IN  -q

\* The remainder of i32 `%`: it has the sign of the dividend.
TruncRem(a, b) == a - b * TruncDiv(a, b)

\* `cond as i32`
BoolAsI32(cond) == IF cond THEN 1 ELSE 0

-----------------------------------------------------------------------------
(* 0-based access to the boxed slices. *)

Get(s, i) == s[i + 1]

Set(s, i, v) == [s EXCEPT ![i + 1] = v]

\* An index that get/get_mut accept and get_unchecked may be given.
InBounds(s, i) == 0 <= i /\ i < Len(s)

-----------------------------------------------------------------------------
(* Vm::execute: the checks and address computations of the dispatch loop. *)

\* The values execute returns as Err, and the ways it can end otherwise.
VmErrors == { "InvalidOpcode", "UnexpectedProgramEnd", "StackOverflow",
              "StackUnderflow", "ControlStackOverflow", "ControlStackUnderflow" }

Panics == { "PanicArithmeticOverflow", "PanicDivideByZero" }

\* Mutants of Underflows: the check gives way one value too late, or one too early.
Underflows_Late(inst, idx) == idx < num_stack_args(inst) - 1

Underflows_Early(inst, idx) == idx <= num_stack_args(inst)

\* `self.stack_idx < inst.num_stack_args() as usize`
Underflows(inst, idx) == idx < num_stack_args(inst)

\* Mutant of Overflows: the check gives way one slot too late.
Overflows_Late(inst, idx, len) == idx - 1 > len - stack_effect(inst)

\* `self.stack_idx as isize >= self.stack.len() as isize - inst.stack_effect() as isize`
Overflows(inst, idx, len) == idx >= len - stack_effect(inst)

\* Mutant of NextStackIdx: the effect is applied with the wrong sign.
NextStackIdx_Negated(inst, idx) == idx - stack_effect(inst)

\* `(self.stack_idx as isize + inst.stack_effect() as isize) as usize`
NextStackIdx(inst, idx) == idx + stack_effect(inst)

\* Mutant of JumpAddr: the displacement is counted from the end of the operand.
JumpAddr_FromAfterOperand(pos_after_operand, delta) == pos_after_operand + delta

\* jump's `(opcodes.position() as i64 + delta as i64 - operand_size) as u64`,
\* where the position is the one the read of the operand has left.
JumpAddr(pos_after_operand, delta) == pos_after_operand + delta - OperandSize

\* Mutant of ReturnAddr: the operand is not skipped.
ReturnAddr_AtOperand(pos_of_operand) == pos_of_operand

\* Call's `opcodes.position() as i32 + 4`, before the operand is read.
ReturnAddr(pos_of_operand) == pos_of_operand + 4

\* Ret's `addr as u64`: sign extension, which the signed reading of the cursor
\* leaves as it is.
AddrAsU64(addr) == addr

\* Mutant of ControlStackFull: the comparison is strict.
ControlStackFull_Strict(cidx, len) == cidx > len

\* CPush's `self.control_stack_idx >= self.control_stack.len()`
ControlStackFull(cidx, len) == cidx >= len

\* CPop's and CDup's `self.control_stack_idx < 1`
ControlStackEmpty(cidx) == cidx < 1

\* Whether read_u8 / read_i32 at `pos` find their n bytes.
CanRead(prog, pos, n) == pos >= 0 /\ pos + n <= Len(prog)

\* read_i32::<LittleEndian> at `pos`.
ReadOperand(prog, pos) == ReadI32LE(SubSeq(prog, pos + 1, pos + OperandSize))

\* Mutant of jump: the condition is not looked at.
jump_Unconditional(prog, pos, condition) ==
    IF ~CanRead(prog, pos, OperandSize)
    THEN [ok |-> FALSE, position |-> Len(prog)]
    ELSE [ok |-> TRUE, position |-> JumpAddr(pos + OperandSize, ReadOperand(prog, pos))]

\* The inner fn jump, called with the cursor at `pos`: Err(UnexpectedProgramEnd)
\* when the operand is cut short (the failed read leaves the cursor at the end
\* of the buffer), else the cursor it leaves.
jump(prog, pos, condition) ==
    IF ~CanRead(prog, pos, OperandSize)
    THEN [ok |-> FALSE, position |-> Len(prog)]
    ELSE [ok |-> TRUE,
          position |-> IF condition
                       THEN JumpAddr(pos + OperandSize, ReadOperand(prog, pos))
                       ELSE pos + OperandSize]

\* The outcomes of an i32 operation whose exact result overflows or not: a
\* panic or the wrapped value, by build.
ArithOutcomes(overflows, wrapped) ==
    IF overflows
    THEN { [panic |-> "PanicArithmeticOverflow", val |-> 0], [panic |-> "", val |-> wrapped] }
    ELSE { [panic |-> "", val |-> wrapped] }

\* Mutant of DivOutcomes: a zero divisor gives zero.
DivOutcomes_ZeroGivesZero(a, b, exact) ==
    IF b = 0 THEN { [panic |-> "", val |-> 0] }
    ELSE IF a = I32Min /\ b = -1 THEN { [panic |-> "PanicArithmeticOverflow", val |-> 0] }
    ELSE { [panic |-> "", val |-> exact] }

\* The outcomes of i32 `/` and `%`, which panic in every build on a zero divisor
\* and on I32Min by -1.
DivOutcomes(a, b, exact) ==
    IF b = 0 THEN { [panic |-> "PanicDivideByZero", val |-> 0] }
    ELSE IF a = I32Min /\ b = -1 THEN { [panic |-> "PanicArithmeticOverflow", val |-> 0] }
    ELSE { [panic |-> "", val |-> exact] }

-----------------------------------------------------------------------------
(* One iteration of `while let Ok(opcode) = opcodes.read_u8()`. *)

\* The iteration ends with `res` and these values of the state.
Iterate(res, pos, st, idx, cst, cidx, out) ==
    /\ result' = res
    /\ position' = pos
    /\ stack' = st
    /\ stack_idx' = idx
    /\ control_stack' = cst
    /\ control_stack_idx' = cidx
    /\ output' = out
    /\ last' = [ opcode |-> Get(program, position),
                 inst |-> from_u8(Get(program, position)),
                 position |-> position,
                 stack |-> stack, stack_idx |-> stack_idx,
                 control_stack |-> control_stack,
                 control_stack_idx |-> control_stack_idx,
                 output |-> output ]
    /\ steps' = steps + 1
    /\ UNCHANGED <<source, program>>

\* The iteration returns Err(res) or panics, the cursor at `pos`.
Stop(res, pos) ==
    Iterate(res, pos, stack, stack_idx, control_stack, control_stack_idx, output)

\* The body of `inst` has run and the loop goes on: line 284 applies the effect.
Continue(inst, pos, st, cst, cidx, out) ==
    Iterate("running", pos, st, NextStackIdx(inst, stack_idx), cst, cidx, out)

\* read_u8 yields a byte.
Fetched ==
    /\ result = "running"
    /\ steps < StepLimit(source)
    /\ CanRead(program, position, 1)

\* The byte decodes to `inst` and both depth checks pass.
Dispatch(inst) ==
    /\ Fetched
    /\ from_u8(Get(program, position)) = inst
    /\ ~Underflows(inst, stack_idx)
    /\ ~Overflows(inst, stack_idx, Len(stack))

\* Mutant of EndOfProgram: a cursor anywhere but at the end of the buffer is an
\* error.
EndOfProgram_OnlyAtEnd ==
    /\ result = "running"
    /\ ~CanRead(program, position, 1)
    /\ result' = IF position = Len(program) THEN "Ok" ELSE "UnexpectedProgramEnd"
    /\ UNCHANGED <<source, program, position, stack, stack_idx, control_stack,
                   control_stack_idx, output, last, steps>>

\* read_u8 fails: the loop ends and execute returns Ok(()).
EndOfProgram ==
    /\ result = "running"
    /\ ~CanRead(program, position, 1)
    /\ result' = "Ok"
    /\ UNCHANGED <<source, program, position, stack, stack_idx, control_stack,
                   control_stack_idx, output, last, steps>>

FailInvalidOpcode ==
    /\ Fetched
    /\ from_u8(Get(program, position)) = "None"
    /\ Stop("InvalidOpcode", position + 1)

FailStackUnderflow ==
    /\ Fetched
    /\ from_u8(Get(program, position)) # "None"
    /\ Underflows(from_u8(Get(program, position)), stack_idx)
    /\ Stop("StackUnderflow", position + 1)

FailStackOverflow ==
    /\ Fetched
    /\ from_u8(Get(program, position)) # "None"
    /\ ~Underflows(from_u8(Get(program, position)), stack_idx)
    /\ Overflows(from_u8(Get(program, position)), stack_idx, Len(stack))
    /\ Stop("StackOverflow", position + 1)

ExecNop ==
    /\ Dispatch("Nop")
    /\ Continue("Nop", position + 1, stack, control_stack, control_stack_idx, output)

\* Mutant of ExecPrint: the value goes to the front of the output.
ExecPrint_Prepends ==
    /\ Dispatch("Print")
    /\ IF ~InBounds(stack, stack_idx - 1)
       THEN Stop("UndefinedBehaviour", position + 1)
       ELSE Continue("Print", position + 1, stack, control_stack, control_stack_idx,
                     << Get(stack, stack_idx - 1) >> \o output)

\* `println!("{}", val)` with val the value on top.
ExecPrint ==
    /\ Dispatch("Print")
    /\ IF ~InBounds(stack, stack_idx - 1)
       THEN Stop("UndefinedBehaviour", position + 1)
       ELSE Continue("Print", position + 1, stack, control_stack, control_stack_idx,
                     Append(output, Get(stack, stack_idx - 1)))

\* `break`: line 284 is not reached.
ExecHalt ==
    /\ Dispatch("Halt")
    /\ Stop("Ok", position + 1)

ExecPush ==
    /\ Dispatch("Push")
    /\ IF ~CanRead(program, position + 1, OperandSize)
       THEN Stop("UnexpectedProgramEnd", Len(program))
       ELSE IF ~InBounds(stack, stack_idx)
       THEN Stop("StackOverflow", position + 1 + OperandSize)
       ELSE Continue("Push", position + 1 + OperandSize,
                     Set(stack, stack_idx, ReadOperand(program, position + 1)),
                     control_stack, control_stack_idx, output)

ExecDup ==
    /\ Dispatch("Dup")
    /\ IF ~(InBounds(stack, stack_idx) /\ InBounds(stack, stack_idx - 1))
       THEN Stop("UndefinedBehaviour", position + 1)
       ELSE Continue("Dup", position + 1,
                     Set(stack, stack_idx, Get(stack, stack_idx - 1)),
                     control_stack, control_stack_idx, output)

ExecPop ==
    /\ Dispatch("Pop")
    /\ Continue("Pop", position + 1, stack, control_stack, control_stack_idx, output)

\* Mutant of ExecSwap: the two values stay where they are.
ExecSwap_Keeps ==
    /\ Dispatch("Swap")
    /\ Continue("Swap", position + 1, stack, control_stack, control_stack_idx, output)

ExecSwap ==
    /\ Dispatch("Swap")
    /\ IF ~(InBounds(stack, stack_idx - 1) /\ InBounds(stack, stack_idx - 2))
       THEN Stop("UndefinedBehaviour", position + 1)
       ELSE LET tmp == Get(stack, stack_idx - 1)
                st1 == Set(stack, stack_idx - 1, Get(stack, stack_idx - 2))
            IN  Continue("Swap", position + 1, Set(st1, stack_idx - 2, tmp),
                         control_stack, control_stack_idx, output)

\* The binary instructions: the result replaces the slot below the top, in place.
Binary(inst, outcomes) ==
    IF ~(InBounds(stack, stack_idx - 1) /\ InBounds(stack, stack_idx - 2))
    THEN Stop("UndefinedBehaviour", position + 1)
    ELSE \E o \in outcomes :
            IF o.panic # ""
            THEN Stop(o.panic, position + 1)
            ELSE Continue(inst, position + 1, Set(stack, stack_idx - 2, o.val),
                          control_stack, control_stack_idx, output)

\* The slot below the top (`*ptr2`, the left operand) and the top (`val1`).
Below == Get(stack, stack_idx - 2)

Top == Get(stack, stack_idx - 1)

ExecAdd ==
    /\ Dispatch("Add")
    /\ Binary("Add", ArithOutcomes(AddOverflows(Below, Top), WrappingAdd(Below, Top)))

ExecSub ==
    /\ Dispatch("Sub")
    /\ Binary("Sub", ArithOutcomes(SubOverflows(Below, Top), WrappingSub(Below, Top)))

ExecMul ==
    /\ Dispatch("Mul")
    /\ Binary("Mul", ArithOutcomes(MulOverflows(Below, Top), WrappingMul(Below, Top)))

ExecDiv ==
    /\ Dispatch("Div")
    /\ Binary("Div", DivOutcomes(Below, Top, TruncDiv(Below, Top)))

ExecMod ==
    /\ Dispatch("Mod")
    /\ Binary("Mod", DivOutcomes(Below, Top, TruncRem(Below, Top)))

ExecEq ==
    /\ Dispatch("Eq")
    /\ Binary("Eq", { [panic |-> "", val |-> BoolAsI32(Below = Top)] })

ExecLt ==
    /\ Dispatch("Lt")
    /\ Binary("Lt", { [panic |-> "", val |-> BoolAsI32(Below < Top)] })

ExecLte ==
    /\ Dispatch("Lte")
    /\ Binary("Lte", { [panic |-> "", val |-> BoolAsI32(Below <= Top)] })

ExecGt ==
    /\ Dispatch("Gt")
    /\ Binary("Gt", { [panic |-> "", val |-> BoolAsI32(Below > Top)] })

ExecGte ==
    /\ Dispatch("Gte")
    /\ Binary("Gte", { [panic |-> "", val |-> BoolAsI32(Below >= Top)] })

\* Jz, Jnz, Jump: `try!(jump(&mut opcodes, condition))`.
Branch(inst, condition) ==
    LET j == jump(program, position + 1, condition)
    IN  IF ~j.ok
        THEN Stop("UnexpectedProgramEnd", j.position)
        ELSE Continue(inst, j.position, stack, control_stack, control_stack_idx, output)

ExecJz ==
    /\ Dispatch("Jz")
    /\ IF ~InBounds(stack, stack_idx - 1)
       THEN Stop("UndefinedBehaviour", position + 1)
       ELSE Branch("Jz", Top = 0)

ExecJnz ==
    /\ Dispatch("Jnz")
    /\ IF ~InBounds(stack, stack_idx - 1)
       THEN Stop("UndefinedBehaviour", position + 1)
       ELSE Branch("Jnz", Top # 0)

ExecJump ==
    /\ Dispatch("Jump")
    /\ Branch("Jump", TRUE)

\* Mutant of ExecCall: the control cursor moves before the operand is read.
ExecCall_CountsFirst ==
    /\ Dispatch("Call")
    /\ IF ~InBounds(control_stack, control_stack_idx)
       THEN Stop("ControlStackOverflow", position + 1)
       ELSE LET cst == Set(control_stack, control_stack_idx, ReturnAddr(position + 1))
                j   == jump(program, position + 1, TRUE)
            IN  IF ~j.ok
                THEN Iterate("UnexpectedProgramEnd", j.position, stack, stack_idx,
                             cst, control_stack_idx + 1, output)
                ELSE Continue("Call", j.position, stack, cst, control_stack_idx + 1, output)

\* The return address is stored before the operand is read: a cut-short operand
\* fails with the slot above the control cursor already written.
ExecCall ==
    /\ Dispatch("Call")
    /\ IF ~InBounds(control_stack, control_stack_idx)
       THEN Stop("ControlStackOverflow", position + 1)
       ELSE LET cst == Set(control_stack, control_stack_idx, ReturnAddr(position + 1))
                j   == jump(program, position + 1, TRUE)
            IN  IF ~j.ok
                THEN Iterate("UnexpectedProgramEnd", j.position, stack, stack_idx,
                             cst, control_stack_idx, output)
                ELSE Continue("Call", j.position, stack, cst, control_stack_idx + 1, output)

\* `self.control_stack_idx - 1` on an empty control stack overflows usize: a
\* panic with overflow checks, and without them an index get_mut refuses, which
\* the code reports as ControlStackOverflow.
ExecRet ==
    /\ Dispatch("Ret")
    /\ IF control_stack_idx = 0
       THEN \E res \in { "PanicArithmeticOverflow", "ControlStackOverflow" } :
                Stop(res, position + 1)
       ELSE IF ~InBounds(control_stack, control_stack_idx - 1)
       THEN Stop("ControlStackOverflow", position + 1)
       ELSE Continue("Ret", AddrAsU64(Get(control_stack, control_stack_idx - 1)),
                     stack, control_stack, control_stack_idx - 1, output)

ExecCPush ==
    /\ Dispatch("CPush")
    /\ IF ControlStackFull(control_stack_idx, Len(control_stack))
       THEN Stop("ControlStackOverflow", position + 1)
       ELSE IF ~InBounds(stack, stack_idx - 1)
       THEN Stop("UndefinedBehaviour", position + 1)
       ELSE Continue("CPush", position + 1, stack,
                     Set(control_stack, control_stack_idx, Get(stack, stack_idx - 1)),
                     control_stack_idx + 1, output)

ExecCPop ==
    /\ Dispatch("CPop")
    /\ IF ControlStackEmpty(control_stack_idx)
       THEN Stop("ControlStackUnderflow", position + 1)
       ELSE IF ~(InBounds(stack, stack_idx) /\ InBounds(control_stack, control_stack_idx - 1))
       THEN Stop("UndefinedBehaviour", position + 1)
       ELSE Continue("CPop", position + 1,
                     Set(stack, stack_idx, Get(control_stack, control_stack_idx - 1)),
                     control_stack, control_stack_idx - 1, output)

ExecCDup ==
    /\ Dispatch("CDup")
    /\ IF ControlStackEmpty(control_stack_idx)
       THEN Stop("ControlStackUnderflow", position + 1)
       ELSE IF ~(InBounds(stack, stack_idx) /\ InBounds(control_stack, control_stack_idx - 1))
       THEN Stop("UndefinedBehaviour", position + 1)
       ELSE Continue("CDup", position + 1,
                     Set(stack, stack_idx, Get(control_stack, control_stack_idx - 1)),
                     control_stack, control_stack_idx, output)

-----------------------------------------------------------------------------
(* assemble: text to bytecode, with labels resolved in a second pass. *)

AsmPanics == { "PanicRedefinedLabel", "PanicUnrecognizedInstruction",
               "PanicMissingOperand", "PanicBadOperand", "PanicUndefinedLabel" }

CharAt(s, i) == SubSeq(s, i, i)

\* `c == '\n' || c == ';'`
StatementEnds == { "\n", ";" }

\* char::is_whitespace, on the characters of the sources
Whitespace == { " ", "\t", "\n", "\r", "\f" }

\* str::split on s[lo..hi]: the pieces between the characters of `seps`, empty
\* pieces included.  The halves are split on their own and the piece that
\* straddles the middle is joined again.
RECURSIVE SplitRange(_, _, _, _)
SplitRange(s, lo, hi, seps) ==
    IF lo > hi THEN << "" >>
    ELSE IF lo = hi THEN (IF CharAt(s, lo) \in seps THEN << "", "" >> ELSE << CharAt(s, lo) >>)
    ELSE LET mid   == (lo + hi) \div 2
             left  == SplitRange(s, lo, mid, seps)
             right == SplitRange(s, mid + 1, hi, seps)
         IN  SubSeq(left, 1, Len(left) - 1)
                \o << left[Len(left)] \o right[1] >>
                \o SubSeq(right, 2, Len(right))

\* `source.split(|c| c == '\n' || c == ';')`
Statements(src) == SplitRange(src, 1, Len(src), StatementEnds)

\* `line.split(char::is_whitespace).filter(|s| !s.is_empty())`
Tokens(line) == SelectSeq(SplitRange(line, 1, Len(line), Whitespace), LAMBDA t : t # "")

DigitValue(c) == CHOOSE d \in 0..9 : CharAt("0123456789", d + 1) = c

IsDigit(c) == \E d \in 0..9 : CharAt("0123456789", d + 1) = c

\* The digit loop of i32::from_str: the digits accumulate upward for a positive
\* number and downward for a negative one, and fail once they leave i32.
RECURSIVE ParseDigits(_, _, _, _)
ParseDigits(tok, i, negative, acc) ==
    IF i > Len(tok) THEN [ok |-> TRUE, val |-> acc]
    ELSE IF ~IsDigit(CharAt(tok, i)) THEN [ok |-> FALSE, val |-> 0]
    ELSE LET d == DigitValue(CharAt(tok, i))
         IN  IF negative
             THEN IF acc < (I32Min + d + 9) \div 10 THEN [ok |-> FALSE, val |-> 0]
                  ELSE ParseDigits(tok, i + 1, negative, acc * 10 - d)
             ELSE IF acc > (I32Max - d) \div 10 THEN [ok |-> FALSE, val |-> 0]
                  ELSE ParseDigits(tok, i + 1, negative, acc * 10 + d)

\* `operand.parse::<i32>()`: an optional sign and at least one decimal digit.
ParseI32(tok) ==
    IF tok = "" THEN [ok |-> FALSE, val |-> 0]
    ELSE IF CharAt(tok, 1) \in { "+", "-" }
    THEN IF Len(tok) = 1 THEN [ok |-> FALSE, val |-> 0]
         ELSE ParseDigits(tok, 2, CharAt(tok, 1) = "-", 0)
    ELSE ParseDigits(tok, 1, FALSE, 0)

\* Mutant of LabelDelta: the displacement is counted from the end of the operand.
LabelDelta_FromAfterOperand(target_index, use_index) ==
    target_index - (use_index + OperandSize)

\* `target_index as i32 - use_index as i32`
LabelDelta(target_index, use_index) == target_index - use_index

\* The four bytes at `at` overwritten: `(&mut program[at..]).write_i32(v)`.
Patch(prog, at, v) ==
    [ i \in 1..Len(prog) |->
        IF at < i /\ i <= at + OperandSize THEN WriteI32LE(v)[i - at] ELSE prog[i] ]

\* The state of assemble before any line: the three locals, and the panic that
\* has ended it ("" while there is none).
AsmStart ==
    [ program |-> <<>>, label_definitions |-> <<>>, label_uses |-> <<>>, panic |-> "" ]

AsmPanic(asm, why) == [asm EXCEPT !.panic = why]

\* label_definitions is a sequence of <<name, offset>> with distinct names.
IsDefined(asm, name) ==
    \E k \in 1..Len(asm.label_definitions) : asm.label_definitions[k][1] = name

LabelOffset(asm, name) ==
    (CHOOSE d \in { asm.label_definitions[k] : k \in 1..Len(asm.label_definitions) } :
        d[1] = name)[2]

\* `for _ in 0..inst.num_operands()`: the n operands that follow, from tokens[t].
RECURSIVE AsmOperands(_, _, _, _)
AsmOperands(asm, tokens, t, n) ==
    IF n = 0 THEN asm
    ELSE IF t > Len(tokens) THEN AsmPanic(asm, "PanicMissingOperand")
    ELSE LET operand == tokens[t]
         IN  IF CharAt(operand, 1) = "@"
             THEN AsmOperands(
                    [asm EXCEPT
                       !.label_uses = Append(@, << SubSeq(operand, 2, Len(operand)),
                                                   Len(asm.program) >>),
                       !.program = @ \o << 0, 0, 0, 0 >>],
                    tokens, t + 1, n - 1)
             ELSE IF ParseI32(operand).ok
             THEN AsmOperands(
                    [asm EXCEPT
                       !.program = Patch(@ \o << 0, 0, 0, 0 >>, Len(asm.program),
                                         ParseI32(operand).val)],
                    tokens, t + 1, n - 1)
             ELSE AsmPanic(asm, "PanicBadOperand")

\* The instruction of a statement, its mnemonic at tokens[t].
AsmInstruction(asm, tokens, t) ==
    IF t > Len(tokens) THEN asm
    ELSE LET inst == from_str(tokens[t])
         IN  IF inst = "None" THEN AsmPanic(asm, "PanicUnrecognizedInstruction")
             ELSE AsmOperands([asm EXCEPT !.program = Append(@, as_u8(inst))],
                              tokens, t + 1, num_operands(inst))

\* One statement: an optional `label:` and an optional instruction.
AsmStatement(asm, line) ==
    LET tokens == Tokens(line)
    IN  IF tokens = <<>> THEN asm
        ELSE LET label == tokens[1]
             IN  IF CharAt(label, Len(label)) = ":"
                 THEN LET label_name == SubSeq(label, 1, Len(label) - 1)
                      IN  IF IsDefined(asm, label_name)
                          THEN AsmPanic(asm, "PanicRedefinedLabel")
                          ELSE AsmInstruction(
                                 [asm EXCEPT !.label_definitions =
                                     Append(@, << label_name, Len(asm.program) >>)],
                                 tokens, 2)
                 ELSE AsmInstruction(asm, tokens, 1)

\* The first pass over the statements, stopping at the first panic.
RECURSIVE AsmStatements(_, _, _)
AsmStatements(asm, lines, k) ==
    IF k > Len(lines) \/ asm.panic # "" THEN asm
    ELSE AsmStatements(AsmStatement(asm, lines[k]), lines, k + 1)

\* Mutant of AsmResolve: a use of an undefined label keeps its four zero bytes.
RECURSIVE AsmResolve_Lenient(_, _)
AsmResolve_Lenient(asm, k) ==
    IF k > Len(asm.label_uses) \/ asm.panic # "" THEN asm
    ELSE LET label_name == asm.label_uses[k][1]
             use_index  == asm.label_uses[k][2]
         IN  IF ~IsDefined(asm, label_name) THEN AsmResolve_Lenient(asm, k + 1)
             ELSE AsmResolve_Lenient(
                    [asm EXCEPT !.program =
                        Patch(@, use_index,
                              LabelDelta(LabelOffset(asm, label_name), use_index))],
                    k + 1)

\* The second pass: every use is overwritten with its displacement.
RECURSIVE AsmResolve(_, _)
AsmResolve(asm, k) ==
    IF k > Len(asm.label_uses) \/ asm.panic # "" THEN asm
    ELSE LET label_name == asm.label_uses[k][1]
             use_index  == asm.label_uses[k][2]
         IN  IF ~IsDefined(asm, label_name) THEN AsmPanic(asm, "PanicUndefinedLabel")
             ELSE AsmResolve(
                    [asm EXCEPT !.program =
                        Patch(@, use_index,
                              LabelDelta(LabelOffset(asm, label_name), use_index))],
                    k + 1)

\* assemble(source): its locals when it returns or panics.
assemble(src) == AsmResolve(AsmStatements(AsmStart, Statements(src), 1), 1)

-----------------------------------------------------------------------------
(* The inputs: a Vm as its caller constructs it, and a source text or a raw   *)
(* byte buffer.                                                              *)

\* The live values of an initial operand stack and of an initial control stack.
StackVals == { -3, 0, 2 }

ControlVals == { 0, 5 }

\* A boxed slice of `cap` cells with `n` live ones drawn from `vals`; the cells
\* above the cursor hold a value of no meaning.
Slices(cap, n, vals) ==
    { [ i \in 1..cap |-> IF i <= n THEN live[i] ELSE 7 ] : live \in [ 1..n -> vals ] }

\* Every Vm of the bounded capacities with 0 <= cursor <= capacity.
AllVms ==
    UNION { { [ stack |-> st, stack_idx |-> n,
                control_stack |-> cst, control_stack_idx |-> m ] :
                st \in Slices(StackCap, n, StackVals),
                cst \in Slices(ControlStackCap, m, ControlVals) } :
            n \in 0..StackCap, m \in 0..ControlStackCap }

\* The Vm of main: both stacks empty.
FreshVms == { vm \in AllVms : vm.stack_idx = 0 /\ vm.control_stack_idx = 0 }

\* One-statement sources: every mnemonic, and displacements that lead forward,
\* backward, into the operand, past the end and before the start.
OneStatement ==
    { "nop", "print", "halt", "push 2", "push -3", "push 2147483647", "dup", "pop",
      "swap", "add", "sub", "mul", "div", "mod", "eq", "lt", "lte", "gt", "gte",
      "jz 4", "jz -1", "jnz 4", "jnz 0", "jump 4", "jump 0", "jump -1", "jump -5",
      "jump 100", "call 4", "call -1", "call 100", "ret", "cpush", "cpop", "cdup" }

\* The statements that longer sources are made of.
Menu ==
    << "push 0", "push 2", "dup", "print", "sub", "halt", "cpush", "cpop",
       "jz @a", "jnz @a", "jump @a", "call @a", "a: ret", "a: nop" >>

\* The sources of exactly n statements of Menu, separated by ';' or a newline.
RECURSIVE Composed(_)
Composed(n) ==
    IF n = 1 THEN { Menu[k] : k \in 1..Len(Menu) }
    ELSE { s \o sep \o Menu[k] : s \in Composed(n - 1), sep \in { ";" }, k \in 1..Len(Menu) }

\* Sources written out: labels used before and after their definition, a
\* subroutine, a loop, and the layouts the tokenizer has to cope with.
Written ==
    { "",
      "jump @end\nnop\nend: halt",
      "start: push 0; jz @end\n  jump @start\nend:",
      "push 2\nloop: dup; jnz @next\nnext: halt",
      "call @f\nhalt\nf: ret",
      "call @f; print; halt\nf: push 2\n ret",
      "push 2; cpush; cdup; cpop; sub; print",
      "a: nop\nb: jump @a",
      "push 2147483647; dup; mul; print",
      "push 2 extra\n\n;;  halt",
      "pop\nhalt",
      "push 1\npush 2\nadd\ndup\nprint\nhalt",
      "push 1; push 2; print; print; halt",
      "jump @end; call @nowhere\nend: halt",
      "push -3 extra\n\n;end:;  halt",
      "push -3; cpush; ret",
      "x: x: nop", "frob", "push", "push two", "jump @", ": jump @" }

LongSources == Written \cup UNION { Composed(n) : n \in 2..MaxStmts }

\* Raw byte buffers: bytes that are no opcode, and operands cut short.
RawPrograms ==
    { << 25 >>, << 255 >>, << 0, 25 >>, << 3 >>, << 3, 1, 0 >>, << 19, 4, 0 >>,
      << 17 >>, << 18, 4, 0, 0 >>, << 20, 4, 0, 0 >>, << 20 >> }

Init ==
    /\ \E vm \in AllVms :
          /\ stack = vm.stack
          /\ stack_idx = vm.stack_idx
          /\ control_stack = vm.control_stack
          /\ control_stack_idx = vm.control_stack_idx
          /\ \/ source \in OneStatement /\ program = << >> /\ result = "assembling"
             \/ source \in LongSources /\ program = << >> /\ result = "assembling"
                                       /\ vm \in FreshVms
             \/ source = "" /\ program \in RawPrograms /\ result = "running"
    /\ position = 0
    /\ output = << >>
    /\ last = [ opcode |-> -1, inst |-> "None", position |-> 0,
                stack |-> stack, stack_idx |-> stack_idx,
                control_stack |-> control_stack,
                control_stack_idx |-> control_stack_idx, output |-> << >> ]
    /\ steps = 0

\* main: `let program = assemble(source);` then `vm.execute(&program)`.
Assemble ==
    /\ result = "assembling"
    /\ LET asm == assemble(source)
       IN  IF asm.panic # ""
           THEN result' = asm.panic /\ program' = program
           ELSE result' = "running" /\ program' = asm.program
    /\ UNCHANGED <<source, position, stack, stack_idx, control_stack,
                   control_stack_idx, output, last, steps>>

Next ==
    \/ Assemble
    \/ EndOfProgram
    \/ FailInvalidOpcode
    \/ FailStackUnderflow
    \/ FailStackOverflow
    \/ ExecNop
    \/ ExecPrint
    \/ ExecHalt
    \/ ExecPush
    \/ ExecDup
    \/ ExecPop
    \/ ExecSwap
    \/ ExecAdd
    \/ ExecSub
    \/ ExecMul
    \/ ExecDiv
    \/ ExecMod
    \/ ExecEq
    \/ ExecLt
    \/ ExecLte
    \/ ExecGt
    \/ ExecGte
    \/ ExecJz
    \/ ExecJnz
    \/ ExecJump
    \/ ExecCall
    \/ ExecRet
    \/ ExecCPush
    \/ ExecCPop
    \/ ExecCDup

Spec == Init /\ [][Next]_vars

-----------------------------------------------------------------------------
(* What the latest iteration of the loop was and how it ended. *)

\* An iteration has run: `last` is the state it began in.
Executed == last.opcode # -1

\* The latest iteration raised no error (the loop went on, or ended with Ok).
Succeeded == Executed /\ result \in { "running", "Ok" }

\* The value on top of the operand stack when the latest iteration began.
LastTop == Get(last.stack, last.stack_idx - 1)

\* The latest iteration was a branch whose condition held.
TakenBranch ==
    \/ last.inst \in { "Jump", "Call" }
    \/ last.inst = "Jz" /\ LastTop = 0
    \/ last.inst = "Jnz" /\ LastTop # 0

\* The offset of the operand of the latest instruction, and its value.
LastOperandAt == last.position + 1

LastOperand == ReadOperand(program, LastOperandAt)

\* The stack effects of the table of src/main.rs, written out.
TableEffect(inst) ==
    IF inst \in { "Push", "Dup", "CPop", "CDup" } THEN 1
    ELSE IF inst \in { "Nop", "Halt", "Swap", "Jump", "Call", "Ret" } THEN 0
    ELSE -1

-----------------------------------------------------------------------------
(* The claims. *)

\* C1: at every point of an execution, the error and success states included,
\* 0 <= stack_idx <= capacity of the operand stack.
C1_StackIdxInBounds == 0 <= stack_idx /\ stack_idx <= Len(stack)

\* C1 witness: two instructions have run, the second moved the cursor and then
\* the execution ended.
C1_Witness ==
    /\ steps >= 2
    /\ result \in VmErrors \cup { "Ok" }
    /\ stack_idx # last.stack_idx

\* C2: 0 <= control_stack_idx <= capacity of the control stack at every point;
\* ret on an empty control stack and call or cpush on a full one leave
\* control_stack_idx as it was.
C2_ControlIdxInBounds ==
    /\ 0 <= control_stack_idx /\ control_stack_idx <= Len(control_stack)
    /\ (Executed /\ last.inst = "Ret" /\ last.control_stack_idx = 0)
          => control_stack_idx = 0
    /\ (Executed /\ last.inst \in { "Call", "CPush" }
                 /\ last.control_stack_idx = Len(control_stack))
          => control_stack_idx = Len(control_stack)

\* C2 witness: a cpush that passed the depth checks and found the control
\* stack full.
C2_Witness ==
    /\ last.inst = "CPush"
    /\ last.control_stack_idx = Len(control_stack)
    /\ result = "ControlStackOverflow"

\* C3 as claimed: an instruction with enough arguments fails with StackOverflow
\* exactly when stack_idx + stack_effect exceeds the capacity.
C3_OverflowExactlyAboveCapacity ==
    (Executed /\ last.inst # "None" /\ last.stack_idx >= num_stack_args(last.inst))
       => (result = "StackOverflow"
              <=> last.stack_idx + stack_effect(last.inst) > Len(stack))

\* C4 as claimed: ret on an empty control stack fails with ControlStackUnderflow.
C4_RetOnEmptyUnderflows ==
    (Executed /\ last.inst = "Ret" /\ last.stack_idx < Len(stack)
              /\ last.control_stack_idx = 0)
       => result = "ControlStackUnderflow"

\* C5 as claimed: a taken jump, jz, jnz or call leaves the cursor at
\* (position after the operand) + delta.
C5_TargetFromAfterOperand ==
    (Succeeded /\ TakenBranch) => position = (LastOperandAt + OperandSize) + LastOperand

\* C5 amended: a taken jump, jz, jnz or call leaves the cursor at
\* (position of the first byte of the operand) + delta.
C5_TargetFromOperand ==
    (Succeeded /\ TakenBranch) => position = LastOperandAt + LastOperand

\* C5 witness: a taken conditional branch with a displacement that is not zero.
C5_Witness ==
    /\ Succeeded
    /\ last.inst = "Jz"
    /\ LastTop = 0
    /\ LastOperand # 0
    /\ position = LastOperandAt + LastOperand

\* assemble has returned a buffer for a source text.
Assembled == source # "" /\ result \notin AsmPanics \cup { "assembling" }

\* The label uses of `asm` whose operand lies at offset `at`.
UsesAt(asm, at) == { k \in 1..Len(asm.label_uses) : asm.label_uses[k][2] = at }

\* C6: where an operand is `@L`, the assembled buffer holds the displacement
\* (offset of L) - (offset of the operand), and a taken branch that carries it
\* leaves the cursor exactly at the offset of L.
C6_LabelsResolve ==
    Assembled =>
        LET asm == assemble(source)
        IN  /\ \A k \in 1..Len(asm.label_uses) :
                 ReadOperand(program, asm.label_uses[k][2])
                    = LabelOffset(asm, asm.label_uses[k][1]) - asm.label_uses[k][2]
            /\ (Succeeded /\ TakenBranch)
                 => \A k \in UsesAt(asm, LastOperandAt) :
                       position = LabelOffset(asm, asm.label_uses[k][1])

\* C6 witness: the forward reference `jump @end` has been executed and the
\* cursor is at `end`, the sixth byte.
C6_Witness ==
    /\ source = "jump @end\nnop\nend: halt"
    /\ Succeeded
    /\ last.inst = "Jump"
    /\ last.position = 0
    /\ position = 6
    /\ from_u8(Get(program, position)) = "Halt"

\* The latest iteration found fewer values than its instruction takes.
LastUnderflowed ==
    Executed /\ last.inst # "None" /\ last.stack_idx < num_stack_args(last.inst)

\* C7: an instruction given fewer values than it takes fails with
\* StackUnderflow and leaves both cursors, both stacks and the output as they
\* were; the failing iteration is the last one, so nothing runs after it.
C7_UnderflowLeavesState ==
    /\ LastUnderflowed =>
          /\ result = "StackUnderflow"
          /\ stack = last.stack
          /\ stack_idx = last.stack_idx
          /\ control_stack = last.control_stack
          /\ control_stack_idx = last.control_stack_idx
          /\ output = last.output
    /\ result = "StackUnderflow" => LastUnderflowed

\* C7 witness: `pop; halt` on an empty stack has failed at the pop.
C7_Witness ==
    /\ source = "pop\nhalt"
    /\ result = "StackUnderflow"
    /\ last.inst = "Pop"
    /\ last.stack_idx = 0
    /\ steps = 1

\* C8: an instruction that raises no error moves stack_idx by exactly the stack
\* effect the table gives it.
C8_StackEffect ==
    Succeeded => stack_idx = last.stack_idx + TableEffect(last.inst)

\* C8 witness: a cpop has run to its end and the operand stack is one deeper.
C8_Witness ==
    /\ Succeeded
    /\ last.inst = "CPop"
    /\ stack_idx = last.stack_idx + 1

\* Inst::from_u8 yields an instruction exactly for the bytes 0..24.
DecodesExactlyTheTable == \A b \in Bytes : (from_u8(b) # "None") <=> (b \in 0..24)

\* C9: from_u8 is total over the bytes and yields an instruction exactly for
\* 0..24; a byte outside that range fails with InvalidOpcode whatever the
\* depth of the stack, with both stacks and both cursors as they were, and
\* InvalidOpcode arises in no other way.
C9_InvalidOpcode ==
    /\ DecodesExactlyTheTable
    /\ (Executed /\ last.opcode \notin 0..24) =>
          /\ result = "InvalidOpcode"
          /\ stack = last.stack
          /\ stack_idx = last.stack_idx
          /\ control_stack = last.control_stack
          /\ control_stack_idx = last.control_stack_idx
    /\ result = "InvalidOpcode" => (Executed /\ last.opcode \notin 0..24)

\* C9 witness: the byte 25 was met with a full operand stack, where every
\* instruction of effect 0 or more would have failed the depth check.
C9_Witness ==
    /\ result = "InvalidOpcode"
    /\ last.opcode = 25
    /\ last.stack_idx = Len(stack)

-----------------------------------------------------------------------------
(* The binary instructions. *)

BinaryInsts == { "Add", "Sub", "Mul", "Div", "Mod", "Eq", "Lt", "Lte", "Gt", "Gte" }

\* The operands of the latest instruction in stack order, `..., a, b`, and the
\* slot its result is written to.
LastA == Get(last.stack, last.stack_idx - 2)

LastB == Get(last.stack, last.stack_idx - 1)

ResultSlot == Get(stack, last.stack_idx - 2)

Abs(x) == IF x < 0 THEN -x ELSE x

\* q is the quotient of a by b rounded toward zero: what is left over is
\* smaller than b in magnitude and is zero or has the sign of a.
IsTruncatingQuotient(q, a, b) ==
    LET left == a - q * b
    IN  /\ Abs(left) < Abs(b)
        /\ left = 0 \/ ((left < 0) <=> (a < 0))

\* r is the remainder of a by b with the sign of a.
IsRemainderSignOfDividend(r, a, b) ==
    /\ Abs(r) < Abs(b)
    /\ r = 0 \/ ((r < 0) <=> (a < 0))
    /\ (a - r) % Abs(b) = 0

\* C11: a binary instruction that runs to its end on `..., a, b` has written
\* `a op b` into slot stack_idx - 2, operands in stack order, and has moved
\* stack_idx down by one: sub gives a - b, div the quotient rounded toward
\* zero, mod the remainder with the sign of a, the comparisons 1 or 0; every
\* slot below stack_idx - 2 is as it was.
C11_BinaryOps ==
    (Succeeded /\ last.inst \in BinaryInsts) =>
        /\ last.stack_idx >= 2
        /\ stack_idx = last.stack_idx - 1
        /\ \A i \in 0..(last.stack_idx - 3) : Get(stack, i) = Get(last.stack, i)
        /\ (last.inst = "Add" /\ ~AddOverflows(LastA, LastB)) => ResultSlot = LastA + LastB
        /\ (last.inst = "Sub" /\ ~SubOverflows(LastA, LastB)) => ResultSlot = LastA - LastB
        /\ (last.inst = "Mul" /\ ~MulOverflows(LastA, LastB)) => ResultSlot = LastA * LastB
        /\ last.inst = "Div" => IsTruncatingQuotient(ResultSlot, LastA, LastB)
        /\ last.inst = "Mod" => IsRemainderSignOfDividend(ResultSlot, LastA, LastB)
        /\ last.inst = "Eq"  => ResultSlot = (IF LastA = LastB THEN 1 ELSE 0)
        /\ last.inst = "Lt"  => ResultSlot = (IF LastA < LastB THEN 1 ELSE 0)
        /\ last.inst = "Lte" => ResultSlot = (IF LastA <= LastB THEN 1 ELSE 0)
        /\ last.inst = "Gt"  => ResultSlot = (IF LastA > LastB THEN 1 ELSE 0)
        /\ last.inst = "Gte" => ResultSlot = (IF LastA >= LastB THEN 1 ELSE 0)

\* C11 witness: div on a stack of three ending in -3, 2 has left -1 in place of
\* the -3, where rounding down would have given -2; the slot below is as it was.
C11_Witness ==
    /\ Succeeded
    /\ last.inst = "Div"
    /\ last.stack_idx = 3
    /\ LastA = -3
    /\ LastB = 2
    /\ stack_idx = 2
    /\ ResultSlot = -1
    /\ Get(stack, 0) = Get(last.stack, 0)

-----------------------------------------------------------------------------
(* The conditional branches. *)

\* The condition Jz or Jnz hands to jump, on the value it found on top.
LastCondition == IF last.inst = "Jz" THEN LastTop = 0 ELSE LastTop # 0

\* C12: jz branches exactly when the value on top is zero and jnz exactly when
\* it is not; taken or not, the value is popped and the four bytes of the
\* displacement are read, and a branch not taken leaves the cursor at the byte
\* after the operand.
C12_ConditionalBranch ==
    (Succeeded /\ last.inst \in { "Jz", "Jnz" }) =>
        /\ stack_idx = last.stack_idx - 1
        /\ stack = last.stack
        /\ CanRead(program, LastOperandAt, OperandSize)
        /\ LastCondition => position = LastOperandAt + LastOperand
        /\ ~LastCondition => position = LastOperandAt + OperandSize

\* C12 witness: `jnz 0` on a zero has not branched: the cursor is past the
\* operand, not at the operand where the branch would have led.
C12_Witness ==
    /\ Succeeded
    /\ last.inst = "Jnz"
    /\ LastTop = 0
    /\ LastOperand = 0
    /\ position = LastOperandAt + OperandSize
    /\ stack_idx = last.stack_idx - 1

-----------------------------------------------------------------------------
(* Operands cut short. *)

\* The instructions that take an operand.
OperandInsts == { i \in Insts : num_operands(i) = 1 }

\* The live values of a stack: the slots below its cursor.
Live(s, idx) == SubSeq(s, 1, idx)

\* The latest instruction takes an operand, passed the depth checks (and, for
\* call, found room on the control stack), and found fewer than four bytes
\* after its opcode byte.
LastOperandCutShort ==
    /\ Executed
    /\ last.inst \in OperandInsts
    /\ last.stack_idx >= num_stack_args(last.inst)
    /\ ~Overflows(last.inst, last.stack_idx, Len(last.stack))
    /\ last.inst = "Call" => last.control_stack_idx < Len(last.control_stack)
    /\ ~CanRead(program, LastOperandAt, OperandSize)

\* C13: push, jump, jz, jnz or call that passes its stack checks and finds
\* fewer than four bytes after its opcode byte fails with UnexpectedProgramEnd,
\* with both cursors and every live value of both stacks as they were; and
\* UnexpectedProgramEnd arises in no other way.
C13_OperandCutShort ==
    /\ LastOperandCutShort =>
          /\ result = "UnexpectedProgramEnd"
          /\ stack_idx = last.stack_idx
          /\ control_stack_idx = last.control_stack_idx
          /\ Live(stack, stack_idx) = Live(last.stack, last.stack_idx)
          /\ Live(control_stack, control_stack_idx)
                = Live(last.control_stack, last.control_stack_idx)
          /\ output = last.output
    /\ result = "UnexpectedProgramEnd" => LastOperandCutShort

\* C13 witness: a call whose operand is cut short has failed after it stored
\* the return address, in the slot above the control cursor, which is not live.
C13_Witness ==
    /\ result = "UnexpectedProgramEnd"
    /\ last.inst = "Call"
    /\ Len(program) - LastOperandAt \in 1..3
    /\ last.control_stack_idx = 1
    /\ control_stack_idx = 1
    /\ control_stack # last.control_stack
    /\ Get(control_stack, 0) = Get(last.control_stack, 0)

-----------------------------------------------------------------------------
(* The output channel. *)

\* One step of the program, as far as the output is concerned: it is taken
\* while the program is still assembling or running, and it appends the value
\* on top of the operand stack when it is a print that ran, and leaves the
\* output alone otherwise.
OutputStep ==
    /\ result \in { "assembling", "running" }
    /\ IF steps' = steps + 1 /\ last'.inst = "Print" /\ result' = "running"
       THEN output' = Append(output, Get(stack, stack_idx - 1))
       ELSE output' = output

\* C14: the output only grows, at its end, by the value on top of the operand
\* stack at each print that is executed, one value per print and in the order
\* of execution; once halt has executed or an error has been raised no further
\* instruction executes and nothing more is emitted.
C14_OutputAppendOnly == [][OutputStep]_vars

\* C14 witness: `push 1; push 2; print; print; halt` has halted after emitting
\* 2 and then 1.
C14_Witness ==
    /\ result = "Ok"
    /\ last.inst = "Halt"
    /\ output = << 2, 1 >>
    /\ stack_idx = 0

-----------------------------------------------------------------------------
(* Labels that are used and labels that are defined, read off the text. *)

\* The tokens of every statement of `src`.
TokenLines(src) == { Tokens(Statements(src)[k]) : k \in 1..Len(Statements(src)) }

\* Whether a statement begins with `label:`.
HasLabel(tokens) == tokens # << >> /\ CharAt(tokens[1], Len(tokens[1])) = ":"

\* The names `src` defines somewhere.
LabelsDefined(src) ==
    { SubSeq(tokens[1], 1, Len(tokens[1]) - 1) : tokens \in { t \in TokenLines(src) : HasLabel(t) } }

\* The names `src` uses as the `@name` operand of an instruction that takes one.
LabelsUsed(src) ==
    LET at(tokens) == IF HasLabel(tokens) THEN 2 ELSE 1
        uses == { tokens \in TokenLines(src) :
                    /\ Len(tokens) > at(tokens)
                    /\ from_str(tokens[at(tokens)]) \in { "Push", "Jz", "Jnz", "Jump", "Call" }
                    /\ CharAt(tokens[at(tokens) + 1], 1) = "@" }
    IN  { SubSeq(tokens[at(tokens) + 1], 2, Len(tokens[at(tokens) + 1])) : tokens \in uses }

UndefinedLabels(src) == LabelsUsed(src) \ LabelsDefined(src)

\* C15: a source with an `@name` operand whose label is defined nowhere is not
\* assembled, whatever else it contains; a source is refused for an undefined
\* label only if it has one; and in an assembled buffer every `@name` operand,
\* its label defined before or after the use, holds the displacement to that
\* label.  It is stated of the states assemble leaves, before the first
\* instruction runs: neither the source nor the buffer changes afterwards.
C15_UndefinedLabels ==
    (source # "" /\ result # "assembling" /\ steps = 0) =>
        /\ UndefinedLabels(source) # {} => result \in AsmPanics
        /\ result = "PanicUndefinedLabel" => UndefinedLabels(source) # {}
        /\ result \notin AsmPanics =>
              LET asm == assemble(source)
              IN  /\ { asm.label_uses[k][1] : k \in 1..Len(asm.label_uses) } = LabelsUsed(source)
                  /\ \A k \in 1..Len(asm.label_uses) :
                        /\ IsDefined(asm, asm.label_uses[k][1])
                        /\ asm.label_uses[k][2] + ReadOperand(program, asm.label_uses[k][2])
                              = LabelOffset(asm, asm.label_uses[k][1])

\* C15 witness: a source that uses `end` before it defines it and `nowhere`
\* without defining it has been refused.
C15_Witness ==
    /\ source = "jump @end; call @nowhere\nend: halt"
    /\ result = "PanicUndefinedLabel"
    /\ LabelsDefined(source) = { "end" }
    /\ LabelsUsed(source) = { "end", "nowhere" }

-----------------------------------------------------------------------------
(* main: the factorial program on a fresh Vm. *)

\* `Vm { stack: Box::new([0; ..]), stack_idx: 0, control_stack: Box::new([0; ..]),
\* control_stack_idx: 0 }` and `assemble(source)` still to come.
InitFact ==
    /\ source \in FactorialSources
    /\ program = << >>
    /\ position = 0
    /\ stack = [ i \in 1..FactStackCap |-> 0 ]
    /\ stack_idx = 0
    /\ control_stack = [ i \in 1..FactControlStackCap |-> 0 ]
    /\ control_stack_idx = 0
    /\ output = << >>
    /\ result = "assembling"
    /\ last = [ opcode |-> -1, inst |-> "None", position |-> 0,
                stack |-> stack, stack_idx |-> stack_idx,
                control_stack |-> control_stack,
                control_stack_idx |-> control_stack_idx, output |-> << >> ]
    /\ steps = 0

\* The instructions the program of main is made of.
FactInsts == { "Push", "Call", "Print", "Halt", "Swap", "Dup", "Jz", "CPush",
               "Mul", "CPop", "Sub", "Jump", "Pop", "Ret" }

\* The steps of main: assemble, then the instructions of the program.  That no
\* other step is ever possible is part of what is checked (FactOnlyItsInsts).
NextFact ==
    \/ Assemble
    \/ ExecPush
    \/ ExecCall
    \/ ExecPrint
    \/ ExecHalt
    \/ ExecSwap
    \/ ExecDup
    \/ ExecJz
    \/ ExecCPush
    \/ ExecMul
    \/ ExecCPop
    \/ ExecSub
    \/ ExecJump
    \/ ExecPop
    \/ ExecRet

SpecFact == InitFact /\ [][NextFact]_vars

\* While the program runs, the cursor is at an instruction of FactInsts that
\* passes both depth checks, within the iterations explored: the iterations
\* left out of NextFact (the end of the buffer, an invalid opcode, a failed
\* depth check, the other instructions) never come up.
FactOnlyItsInsts ==
    result = "running" =>
        /\ steps < StepLimit(source)
        /\ CanRead(program, position, 1)
        /\ from_u8(Get(program, position)) \in FactInsts
        /\ ~Underflows(from_u8(Get(program, position)), stack_idx)
        /\ ~Overflows(from_u8(Get(program, position)), stack_idx, Len(stack))

RECURSIVE Factorial(_)
Factorial(n) == IF n = 0 THEN 1 ELSE n * Factorial(n - 1)

\* Whether n! is an i32.
RECURSIVE FactorialFits(_)
FactorialFits(n) ==
    n = 0 \/ (FactorialFits(n - 1) /\ Factorial(n - 1) <= I32Max \div n)

\* C16: the factorial program of main, assembled and run on a Vm with both
\* stacks empty, ends for every n >= 0 whose factorial is an i32: it raises no
\* error, it has emitted nothing until the print and exactly n! from then on,
\* it takes at most 10 + 9 n instructions, and when execute has returned both
\* cursors are 0.
C16_Factorial ==
    /\ FactOnlyItsInsts
    /\ \A n \in 0..MaxFactorialArg :
          (FactorialFits(n) /\ source = FactorialSource(n)) =>
              /\ result \in { "assembling", "running", "Ok" }
              /\ result = "running" => steps < 10 + 9 * n
              /\ output \in { << >>, << Factorial(n) >> }
              /\ result = "Ok" =>
                    /\ last.inst = "Halt"
                    /\ output = << Factorial(n) >>
                    /\ stack_idx = 0
                    /\ control_stack_idx = 0

\* C16 witness: main's own program, n = 10, has returned Ok after emitting
\* 3628800.
C16_Witness ==
    /\ source = FactorialSource(10)
    /\ result = "Ok"
    /\ output = << 3628800 >>
    /\ stack_idx = 0
    /\ control_stack_idx = 0
    /\ steps = 100

-----------------------------------------------------------------------------
(* The layout of the assembled buffer. *)

\* The instructions `src` writes down, in order: for each statement that has a
\* mnemonic, the instruction it names and the values of its operands.
RECURSIVE ListingFrom(_, _)
ListingFrom(lines, k) ==
    IF k > Len(lines) THEN << >>
    ELSE LET tokens == Tokens(lines[k])
             at     == IF HasLabel(tokens) THEN 2 ELSE 1
         IN  IF Len(tokens) < at THEN ListingFrom(lines, k + 1)
             ELSE LET inst == from_str(tokens[at])
                  IN  << [ inst |-> inst,
                           operands |-> [ j \in 1..num_operands(inst) |->
                                            ParseI32(tokens[at + j]).val ] ] >>
                         \o ListingFrom(lines, k + 1)

Listing(src) == ListingFrom(Statements(src), 1)

\* The records of `prog` from offset `pos` on, read the way the dispatch loop
\* reads them: an opcode byte through from_u8, then one little-endian operand
\* of four bytes when the instruction takes one.  The reading ends at the end
\* of the buffer, or at a byte it cannot read, which it records as "None".
RECURSIVE DecodeFrom(_, _)
DecodeFrom(prog, pos) ==
    IF ~CanRead(prog, pos, 1) THEN << >>
    ELSE LET inst == from_u8(Get(prog, pos))
         IN  IF inst = "None" \/ ~CanRead(prog, pos + 1, OperandSize * num_operands(inst))
             THEN << [ at |-> pos, inst |-> "None", operands |-> << >> ] >>
             ELSE << [ at |-> pos, inst |-> inst,
                       operands |-> [ j \in 1..num_operands(inst) |->
                                        ReadOperand(prog, pos + 1) ] ] >>
                     \o DecodeFrom(prog, pos + 1 + OperandSize * num_operands(inst))

\* The bytes the first k instructions of a listing take.
RECURSIVE SizeOf(_, _)
SizeOf(listing, k) ==
    IF k = 0 THEN 0
    ELSE SizeOf(listing, k - 1) + 1 + OperandSize * Len(listing[k].operands)

\* C17: in the buffer assembled from statements whose operands are integer
\* literals, the k-th instruction of the source begins where the ones before
\* it end, each taking 1 + 4 * num_operands bytes and labels and blank
\* statements none, and reading the buffer record by record gives back the
\* instructions of the source and the values of their operands, in order.
C17_LayoutRoundTrip ==
    (source # "" /\ steps = 0 /\ result \notin AsmPanics \cup { "assembling" }
                 /\ LabelsUsed(source) = {}) =>
        LET listing == Listing(source)
            decoded == DecodeFrom(program, 0)
        IN  /\ Len(program) = SizeOf(listing, Len(listing))
            /\ Len(decoded) = Len(listing)
            /\ \A k \in 1..Len(listing) :
                  /\ decoded[k].at = SizeOf(listing, k - 1)
                  /\ decoded[k].inst = listing[k].inst
                  /\ decoded[k].operands = listing[k].operands
                  /\ Len(listing[k].operands) = num_operands(listing[k].inst)

\* C17 witness: `push -3`, a blank statement, a label and `halt` have become
\* the six bytes 3, 253, 255, 255, 255, 2.
C17_Witness ==
    /\ source = "push -3 extra\n\n;end:;  halt"
    /\ steps = 0
    /\ program = << 3, 253, 255, 255, 255, 2 >>
    /\ Listing(source) = << [ inst |-> "Push", operands |-> << -3 >> ],
                            [ inst |-> "Halt", operands |-> << >> ] >>
    /\ DecodeFrom(program, 0) = << [ at |-> 0, inst |-> "Push", operands |-> << -3 >> ],
                                   [ at |-> 5, inst |-> "Halt", operands |-> << >> ] >>

-----------------------------------------------------------------------------
(* The slots the instruction bodies touch through get_unchecked. *)

\* The operand-stack slots `inst` reads, and those it writes, at depth idx.
StackReads(inst, idx) ==
    IF inst \in { "Print", "Dup", "Jz", "Jnz", "CPush" } THEN { idx - 1 }
    ELSE IF inst \in { "Swap" } \cup BinaryInsts THEN { idx - 1, idx - 2 }
    ELSE { }

StackWrites(inst, idx) ==
    IF inst \in { "Dup", "CPop", "CDup" } THEN { idx }
    ELSE IF inst = "Swap" THEN { idx - 1, idx - 2 }
    ELSE IF inst \in BinaryInsts THEN { idx - 2 }
    ELSE { }

\* The same for the control stack, at depth cidx.
ControlReads(inst, cidx) == IF inst \in { "CPop", "CDup" } THEN { cidx - 1 } ELSE { }

ControlWrites(inst, cidx) == IF inst = "CPush" THEN { cidx } ELSE { }

\* The body of the latest instruction reached its unchecked accesses: the two
\* depth checks passed, and so did the body's own test of the control cursor.
LastBodyRan ==
    /\ Executed
    /\ last.inst # "None"
    /\ ~Underflows(last.inst, last.stack_idx)
    /\ ~Overflows(last.inst, last.stack_idx, Len(last.stack))
    /\ last.inst = "CPush" => ~ControlStackFull(last.control_stack_idx, Len(last.control_stack))
    /\ last.inst \in { "CPop", "CDup" } => ~ControlStackEmpty(last.control_stack_idx)

\* C18: from a Vm with 0 <= stack_idx <= capacity and 0 <= control_stack_idx <=
\* control capacity, every unchecked access of an instruction body is in
\* bounds: it reads below the cursor of the stack it reads and writes below the
\* capacity of the stack it writes.
C18_UncheckedAccesses ==
    /\ result # "UndefinedBehaviour"
    /\ LastBodyRan =>
          /\ \A i \in StackReads(last.inst, last.stack_idx) : 0 <= i /\ i < last.stack_idx
          /\ \A i \in StackWrites(last.inst, last.stack_idx) : 0 <= i /\ i < Len(last.stack)
          /\ \A i \in ControlReads(last.inst, last.control_stack_idx) :
                0 <= i /\ i < last.control_stack_idx
          /\ \A i \in ControlWrites(last.inst, last.control_stack_idx) :
                0 <= i /\ i < Len(last.control_stack)

\* C18 witness: a cdup on a full control stack, with the deepest operand stack
\* the depth check lets it have, has read the last control slot and written
\* the operand slot at the cursor.
C18_Witness ==
    /\ Succeeded
    /\ last.inst = "CDup"
    /\ last.control_stack_idx = Len(control_stack)
    /\ last.stack_idx = Len(stack) - 2
    /\ Get(stack, last.stack_idx) = Get(control_stack, Len(control_stack) - 1)

-----------------------------------------------------------------------------
(* Branches that leave the program. *)

\* An offset that is no byte of the program; a negative one is the signed
\* reading of a cursor beyond 2^63.
OutOfProgram(target) == target < 0 \/ target >= Len(program)

\* Where the latest instruction, a taken branch or a ret, sends the cursor.
LastTarget ==
    IF last.inst = "Ret"
    THEN Get(last.control_stack, last.control_stack_idx - 1)
    ELSE LastOperandAt + LastOperand

\* The latest instruction was a taken jump, jz, jnz or call, or a ret, that
\* passed its checks and read its operand, and its target is out of the program.
LastBranchedOut ==
    /\ Executed
    /\ last.inst \in { "Jump", "Jz", "Jnz", "Call", "Ret" }
    /\ ~Underflows(last.inst, last.stack_idx)
    /\ ~Overflows(last.inst, last.stack_idx, Len(last.stack))
    /\ IF last.inst = "Ret"
       THEN last.control_stack_idx >= 1
       ELSE /\ TakenBranch
            /\ CanRead(program, LastOperandAt, OperandSize)
            /\ last.inst = "Call" => last.control_stack_idx < Len(last.control_stack)
    /\ OutOfProgram(LastTarget)

\* The branch itself raised no error: the cursor is at the target and the stack
\* effect of the branch is applied.
BranchedOutCleanly ==
    LastBranchedOut =>
        /\ result \in { "running", "Ok" }
        /\ position = LastTarget
        /\ stack_idx = last.stack_idx + TableEffect(last.inst)

\* The step that follows ends the loop: execute returns Ok(()) and the Vm is
\* left as the branch left it.
AfterBranchedOut ==
    (LastBranchedOut /\ result = "running") =>
        /\ result' = "Ok"
        /\ UNCHANGED <<position, stack, stack_idx, control_stack, control_stack_idx,
                       output, steps>>

\* C19: a taken jump, jz, jnz or call, or a ret, whose target is at or past the
\* end of the program or negative raises no error; the loop ends there and
\* execute returns success as at the end of the buffer, with the stack effect
\* of the branch applied.
C19_BranchOutOfProgram == [] BranchedOutCleanly /\ [][AfterBranchedOut]_vars

\* C19 witness: in `push -3; cpush; ret` the ret has set the cursor to -3, that
\* is 2^64 - 3, and execute has returned Ok.
C19_Witness ==
    /\ source = "push -3; cpush; ret"
    /\ last.inst = "Ret"
    /\ position = -3
    /\ result = "Ok"
    /\ stack_idx = 0
    /\ control_stack_idx = 0

-----------------------------------------------------------------------------
(* Division by zero. *)

\* The latest instruction was a div or a mod that passed the depth checks with
\* a zero on top.
LastDividedByZero ==
    /\ Executed
    /\ last.inst \in { "Div", "Mod" }
    /\ last.stack_idx >= 2
    /\ LastB = 0

\* C20: div or mod with at least two values and a divisor of zero yields no
\* value and none of the six VmError values: execute neither returns Ok nor an
\* Err, it is aborted by the panic of the division, and both stacks and both
\* cursors are as they were.
C20_DivideByZeroAborts ==
    LastDividedByZero =>
        /\ result \notin VmErrors \cup { "running", "Ok" }
        /\ result = "PanicDivideByZero"
        /\ stack = last.stack
        /\ stack_idx = last.stack_idx
        /\ control_stack = last.control_stack
        /\ control_stack_idx = last.control_stack_idx
        /\ output = last.output

\* C20 witness: `mod` on -3 and 0 has been aborted.
C20_Witness ==
    /\ last.inst = "Mod"
    /\ last.stack_idx >= 2
    /\ LastA = -3
    /\ LastB = 0
    /\ result \notin VmErrors \cup { "running", "Ok" }

=============================================================================
